---- MODULE Spec2Model ----
(***************************************************************************)
(* Model of the terratest helper library:                                  *)
(*   - main.go: TerraformApply and TerraformDestroyHelper, the test        *)
(*     lifecycle orchestrator with its two deferred cleanups;              *)
(*   - modules/aws/ssm.go: GetParameterE, PutParameterE and NewSsmClientE, *)
(*     the parameter-store accessors.                                      *)
(* The orchestrator is modelled one statement group per step, for one run  *)
(* of TerraformApply with any inputs; every external call is appended to   *)
(* the run's history together with the error it returned.  The             *)
(* accessors are modelled one whole call per action against a model of the *)
(* remote parameter service.  testName, templatePath and vars are handed   *)
(* on unchanged to the external calls and are left out.                    *)
(***************************************************************************)
EXTENDS Integers, Sequences, FiniteSets, TLC

\* ------------------------------------------------------------------ bounds
\* Largest parameter version the external writer drives a parameter to.
MaxVersion == 2

\* --------------------------------------------------------------- universes
Regions == {"us-east-1", "eu-west-1"}
\* Tokens util.UniqueId() can return.
Ids == {"id1", "id2"}
\* Go's nil error.
Nil == "nil"
\* Error values the external calls of TerraformApply can return.
Errs == {"e1", "e2"}
ErrOrNil == Errs \cup {Nil}
\* What NewAuthenticatedSession and the transport of an SDK call can return.
SessErrOrNil == {"NoCredentialProviders", Nil}
NetErrOrNil == {"RequestError", Nil}

\* Regions, names, values and descriptions the accessors are called with.
SsmRegions == {"us-east-1"}
Keys == {"k1", "k2"}
Values == {"v1", "v2"}
Descriptions == {"d"}

VARIABLES
    \* ---- one run of TerraformApply
    pc,                     \* position of the run in TerraformApply
    region,                 \* local variable region
    id,                     \* local variable id
    attemptTerraformRetry,  \* parameter attemptTerraformRetry
    err,                    \* local variable err
    deferred,               \* stack of deferred calls, last registered last
    result,                 \* value TerraformApply returns
    calls,                  \* history of the external calls of the run
    printed,                \* diagnostics TerraformDestroyHelper printed
    \* ---- the cloud account
    keyPairs,               \* EC2 key pairs that exist: <<region, name>>
    \* ---- parameter store
    store,                  \* the remote parameter service, per region and name
    ret,                    \* the last accessor call and what it returned
    sent,                   \* remote requests the last accessor call issued
    lastPut                 \* value of the last successful PutParameterE, unwritten since

applyVars == <<pc, region, id, attemptTerraformRetry, err, deferred, result,
               calls, printed, keyPairs>>
ssmVars == <<store, ret, sent, lastPut>>
vars == <<pc, region, id, attemptTerraformRetry, err, deferred, result,
          calls, printed, keyPairs, store, ret, sent, lastPut>>

\* ================================================================ main.go

TF_REMOTE_STATE_S3_BUCKET_REGION == "us-west-2"
TF_REMOTE_STATE_S3_BUCKET_NAME == "tf-remote-state"

\* fmt.Errorf(format, args...): format is given as its literal pieces, one more
\* than there are %s verbs; the i-th argument is written after the i-th piece.
RECURSIVE Sprintf(_, _)
Sprintf(format, args) ==
    IF args = <<>>
      THEN format[1]
      ELSE format[1] \o args[1] \o Sprintf(Tail(format), Tail(args))

Errorf(format, args) == Sprintf(format, args)

\* One external call in the run's history.
Call(op, args, e) == [op |-> op, args |-> args, ret |-> e]

\* Lines 19-31: entry; region := aws.GetRandomRegion(), id := util.UniqueId().
Enter ==
    /\ pc = "start"
    /\ \E rg \in Regions, i \in Ids, b \in BOOLEAN :
          /\ region' = rg
          /\ id' = i
          /\ attemptTerraformRetry' = b
    /\ pc' = "keygen"
    /\ UNCHANGED <<err, deferred, result, calls, printed, keyPairs>>
    /\ UNCHANGED ssmVars

\* Faulty variant of GenerateRSAKeyPair: the error is recorded but the run goes on.
M_GenerateRSAKeyPair ==
    /\ pc = "keygen"
    /\ \E e \in ErrOrNil :
          /\ calls' = Append(calls, Call("GenerateRSAKeyPair", <<>>, e))
          /\ err' = e
          /\ result' = IF e # Nil
                         THEN Errorf(<<"Failed to generate keypair: ", "\n">>, <<e>>)
                         ELSE result
          /\ pc' = "create"
    /\ UNCHANGED <<region, id, attemptTerraformRetry, deferred, printed, keyPairs>>
    /\ UNCHANGED ssmVars

\* Lines 34-39: keyPair, err := util.GenerateRSAKeyPair(2048); return on error.
GenerateRSAKeyPair ==
    /\ pc = "keygen"
    /\ \E e \in ErrOrNil :
          /\ calls' = Append(calls, Call("GenerateRSAKeyPair", <<>>, e))
          /\ err' = e
          /\ IF e # Nil
               THEN /\ result' = Errorf(<<"Failed to generate keypair: ", "\n">>, <<e>>)
                    /\ pc' = "return"
               ELSE /\ result' = result
                    /\ pc' = "create"
    /\ UNCHANGED <<region, id, attemptTerraformRetry, deferred, printed, keyPairs>>
    /\ UNCHANGED ssmVars

\* Faulty variant of CreateEC2KeyPair: the deletion is not deferred.
M_CreateEC2KeyPair ==
    /\ pc = "create"
    /\ calls' = Append(calls, Call("CreateEC2KeyPair", <<region, id>>, Nil))
    /\ keyPairs' = keyPairs \cup {<<region, id>>}
    /\ deferred' = deferred
    /\ pc' = "assert"
    /\ UNCHANGED <<region, id, attemptTerraformRetry, err, result, printed>>
    /\ UNCHANGED ssmVars

\* Lines 41-43: aws.CreateEC2KeyPair(region, id, keyPair.PublicKey), then
\* defer aws.DeleteEC2KeyPair(region, id) with its arguments evaluated now.
CreateEC2KeyPair ==
    /\ pc = "create"
    /\ calls' = Append(calls, Call("CreateEC2KeyPair", <<region, id>>, Nil))
    /\ keyPairs' = keyPairs \cup {<<region, id>>}
    /\ deferred' = Append(deferred, [fn |-> "DeleteEC2KeyPair", args |-> <<region, id>>])
    /\ pc' = "assert"
    /\ UNCHANGED <<region, id, attemptTerraformRetry, err, result, printed>>
    /\ UNCHANGED ssmVars

\* Faulty variant of AssertS3BucketExists: the error of the check is ignored.
M_AssertS3BucketExists ==
    /\ pc = "assert"
    /\ \E e \in ErrOrNil :
          /\ calls' = Append(calls, Call("AssertS3BucketExists",
                                         <<TF_REMOTE_STATE_S3_BUCKET_REGION,
                                           TF_REMOTE_STATE_S3_BUCKET_NAME>>, e))
          /\ err' = e
          /\ result' = result
          /\ pc' = "configure"
    /\ UNCHANGED <<region, id, attemptTerraformRetry, deferred, printed, keyPairs>>
    /\ UNCHANGED ssmVars

\* Lines 46-49: err = aws.AssertS3BucketExists(...); return on error.
AssertS3BucketExists ==
    /\ pc = "assert"
    /\ \E e \in ErrOrNil :
          /\ calls' = Append(calls, Call("AssertS3BucketExists",
                                         <<TF_REMOTE_STATE_S3_BUCKET_REGION,
                                           TF_REMOTE_STATE_S3_BUCKET_NAME>>, e))
          /\ err' = e
          /\ IF e # Nil
               THEN /\ result' =
                          Errorf(<<"Test failed because the S3 Bucket '", "' does not exist in the '",
                                   "' region.\n">>,
                                 <<TF_REMOTE_STATE_S3_BUCKET_NAME,
                                   TF_REMOTE_STATE_S3_BUCKET_REGION>>)
                    /\ pc' = "return"
               ELSE /\ result' = result
                    /\ pc' = "configure"
    /\ UNCHANGED <<region, id, attemptTerraformRetry, deferred, printed, keyPairs>>
    /\ UNCHANGED ssmVars

\* Line 51: terraform.ConfigureRemoteState(templatePath, bucket, id + "/main.tf", region, logger).
ConfigureRemoteState ==
    /\ pc = "configure"
    /\ calls' = Append(calls, Call("ConfigureRemoteState",
                                   <<TF_REMOTE_STATE_S3_BUCKET_NAME, id,
                                     TF_REMOTE_STATE_S3_BUCKET_REGION>>, Nil))
    /\ pc' = "apply"
    /\ UNCHANGED <<region, id, attemptTerraformRetry, err, deferred, result,
                   printed, keyPairs>>
    /\ UNCHANGED ssmVars

\* Faulty variant of ApplyOp: the flag is ignored.
M_ApplyOp(flag) == "Apply"

\* Lines 58-62: the apply operation the flag selects.
ApplyOp(flag) == IF flag THEN "ApplyWithRetry" ELSE "Apply"

\* Lines 56-62: err = terraform.ApplyWithRetry(...) or terraform.Apply(...).
Apply ==
    /\ pc = "apply"
    /\ \E e \in ErrOrNil :
          /\ calls' = Append(calls, Call(ApplyOp(attemptTerraformRetry), <<>>, e))
          /\ err' = e
    /\ pc' = "defer_destroy"
    /\ UNCHANGED <<region, id, attemptTerraformRetry, deferred, result, printed,
                   keyPairs>>
    /\ UNCHANGED ssmVars

\* Faulty variant of DeferDestroy: the error is checked before the defer statement.
M_DeferDestroy ==
    /\ pc = "defer_destroy"
    /\ IF err # Nil
         THEN /\ deferred' = deferred
              /\ result' = Errorf(<<"Failed to terraform apply: ", "\n">>, <<err>>)
         ELSE /\ deferred' = Append(deferred, [fn |-> "TerraformDestroyHelper", args |-> <<>>])
              /\ result' = Nil
    /\ pc' = "return"
    /\ UNCHANGED <<region, id, attemptTerraformRetry, err, calls, printed, keyPairs>>
    /\ UNCHANGED ssmVars

\* Lines 63-68: defer TerraformDestroyHelper(...), then return the apply error or nil.
DeferDestroy ==
    /\ pc = "defer_destroy"
    /\ deferred' = Append(deferred, [fn |-> "TerraformDestroyHelper", args |-> <<>>])
    /\ result' = IF err # Nil
                   THEN Errorf(<<"Failed to terraform apply: ", "\n">>, <<err>>)
                   ELSE Nil
    /\ pc' = "return"
    /\ UNCHANGED <<region, id, attemptTerraformRetry, err, calls, printed, keyPairs>>
    /\ UNCHANGED ssmVars

\* Faulty variant of NextDeferred: deferred calls run first-registered first.
M_NextDeferred(stack) == 1

\* The deferred call that runs next at function exit: the last one registered.
NextDeferred(stack) == Len(stack)

\* The stack without its i-th call.
RemoveAt(stack, i) ==
    [j \in 1..(Len(stack) - 1) |-> IF j < i THEN stack[j] ELSE stack[j + 1]]

\* Faulty variant of TerraformDestroyHelper: a destroy error replaces the returned value.
M_TerraformDestroyHelper ==
    /\ pc = "return"
    /\ deferred # <<>>
    /\ deferred[NextDeferred(deferred)].fn = "TerraformDestroyHelper"
    /\ \E e \in ErrOrNil :
          /\ calls' = Append(calls, Call("Destroy", <<>>, e))
          /\ printed' = printed
          /\ result' = IF e # Nil
                         THEN Errorf(<<"Failed to terraform destroy: ", "\n">>, <<e>>)
                         ELSE result
    /\ deferred' = RemoveAt(deferred, NextDeferred(deferred))
    /\ UNCHANGED <<pc, region, id, attemptTerraformRetry, err, keyPairs>>
    /\ UNCHANGED ssmVars

\* Lines 72-85: TerraformDestroyHelper, run as a deferred call of TerraformApply:
\* terraform.Destroy, and on error a printed diagnostic; nothing is returned.
TerraformDestroyHelper ==
    /\ pc = "return"
    /\ deferred # <<>>
    /\ deferred[NextDeferred(deferred)].fn = "TerraformDestroyHelper"
    /\ \E e \in ErrOrNil :
          /\ calls' = Append(calls, Call("Destroy", <<>>, e))
          /\ printed' = IF e # Nil
                          THEN Append(printed,
                                      Sprintf(<<"Failed to terraform destroy. Official Error Message: ",
                                                "\n">>, <<e>>))
                          ELSE printed
    /\ deferred' = RemoveAt(deferred, NextDeferred(deferred))
    /\ UNCHANGED <<pc, region, id, attemptTerraformRetry, err, result, keyPairs>>
    /\ UNCHANGED ssmVars

\* Line 43 at function exit: the deferred aws.DeleteEC2KeyPair(region, id).
DeleteEC2KeyPair ==
    /\ pc = "return"
    /\ deferred # <<>>
    /\ LET d == deferred[NextDeferred(deferred)] IN
          /\ d.fn = "DeleteEC2KeyPair"
          /\ calls' = Append(calls, Call("DeleteEC2KeyPair", d.args, Nil))
          /\ keyPairs' = keyPairs \ {d.args}
    /\ deferred' = RemoveAt(deferred, NextDeferred(deferred))
    /\ UNCHANGED <<pc, region, id, attemptTerraformRetry, err, result, printed>>
    /\ UNCHANGED ssmVars

\* Lines 36, 48, 65, 68: TerraformApply has returned once no deferred call is left.
Return ==
    /\ pc = "return"
    /\ deferred = <<>>
    /\ pc' = "done"
    /\ UNCHANGED <<region, id, attemptTerraformRetry, err, deferred, result, calls,
                   printed, keyPairs>>
    /\ UNCHANGED ssmVars

\* ======================================================= modules/aws/ssm.go

\* The zero values the accessors return beside an error.
NoValue == ""
NoVersion == 0

\* ---- the remote parameter service (AWS Systems Manager Parameter Store),
\* ---- reached through the SDK calls of lines 23 and 44.

\* A name the service holds no parameter for.
NoParam == [Type |-> "none", Value |-> NoValue, Description |-> "", Version |-> 0]

\* Server-side encryption of a SecureString and its inverse.
Encrypt(v) == "kms(" \o v \o ")"
Decrypt(c) == CHOOSE v \in Values : Encrypt(v) = c

\* ssm.GetParameter on the parameter p held under input.Name: the value is
\* decrypted only for a SecureString read with WithDecryption.
SsmGetParameter(p, input) ==
    IF p.Version = 0
      THEN [Value |-> NoValue, err |-> "ParameterNotFound"]
      ELSE [Value |-> IF p.Type = "SecureString" /\ input.WithDecryption
                        THEN Decrypt(p.Value)
                        ELSE p.Value,
            err |-> Nil]

\* ssm.PutParameter on the parameter p held under input.Name: an existing
\* parameter is replaced, with the next version, only when the request sets
\* Overwrite; otherwise the service answers ParameterAlreadyExists.
SsmPutParameter(p, input) ==
    IF p.Version > 0 /\ ~input.Overwrite
      THEN [param |-> p, Version |-> NoVersion, err |-> "ParameterAlreadyExists"]
      ELSE [param |-> [Type |-> input.Type,
                       Value |-> IF input.Type = "SecureString"
                                   THEN Encrypt(input.Value)
                                   ELSE input.Value,
                       Description |-> input.Description,
                       Version |-> p.Version + 1],
            Version |-> p.Version + 1,
            err |-> Nil]

\* ---- the accessors

\* Lines 60-67: NewSsmClientE; sessErr is what NewAuthenticatedSession returned.
NewSsmClientE(sessErr) ==
    IF sessErr # Nil
      THEN [client |-> FALSE, err |-> sessErr]
      ELSE [client |-> TRUE, err |-> Nil]

\* Faulty variant of GetParameterInput: decryption is not requested.
M_GetParameterInput(keyName) == [Name |-> keyName, WithDecryption |-> FALSE]

\* Line 23: the request GetParameterE builds.
GetParameterInput(keyName) == [Name |-> keyName, WithDecryption |-> TRUE]

\* Line 44: the request PutParameterE builds; Overwrite is left unset.
PutParameterInput(keyName, keyDescription, keyValue) ==
    [Name |-> keyName, Description |-> keyDescription, Value |-> keyValue,
     Type |-> "SecureString", Overwrite |-> FALSE]

\* The SDK call: netErr is a transport failure, which keeps the request from
\* the service; otherwise the service answers.
RemoteGet(p, input, netErr) ==
    IF netErr # Nil THEN [Value |-> NoValue, err |-> netErr]
                    ELSE SsmGetParameter(p, input)

RemotePut(p, input, netErr) ==
    IF netErr # Nil THEN [param |-> p, Version |-> NoVersion, err |-> netErr]
                    ELSE SsmPutParameter(p, input)

\* Faulty variant of GetParameterE: a failed remote call is issued a second time.
M_GetParameterE(p, keyName, sessErr, netErr) ==
    LET c == NewSsmClientE(sessErr)
        input == GetParameterInput(keyName)
        first == RemoteGet(p, input, netErr)
        resp == IF first.err # Nil THEN RemoteGet(p, input, Nil) ELSE first
    IN  IF c.err # Nil
          THEN [value |-> NoValue, err |-> c.err, sent |-> <<>>]
          ELSE [value |-> IF resp.err # Nil THEN NoValue ELSE resp.Value,
                err |-> resp.err,
                sent |-> IF first.err # Nil THEN <<input, input>> ELSE <<input>>]

\* Lines 17-30: GetParameterE on the parameter p the service holds under keyName.
GetParameterE(p, keyName, sessErr, netErr) ==
    LET c == NewSsmClientE(sessErr)
        input == GetParameterInput(keyName)
        resp == RemoteGet(p, input, netErr)
    IN  IF c.err # Nil
          THEN [value |-> NoValue, err |-> c.err, sent |-> <<>>]
          ELSE IF resp.err # Nil
                 THEN [value |-> NoValue, err |-> resp.err, sent |-> <<input>>]
                 ELSE [value |-> resp.Value, err |-> Nil, sent |-> <<input>>]

\* Lines 38-50: PutParameterE on the parameter p the service holds under keyName.
PutParameterE(p, keyName, keyDescription, keyValue, sessErr, netErr) ==
    LET c == NewSsmClientE(sessErr)
        input == PutParameterInput(keyName, keyDescription, keyValue)
        resp == RemotePut(p, input, netErr)
    IN  IF c.err # Nil
          THEN [version |-> NoVersion, err |-> c.err, sent |-> <<>>, param |-> p]
          ELSE IF resp.err # Nil
                 THEN [version |-> NoVersion, err |-> resp.err, sent |-> <<input>>,
                       param |-> resp.param]
                 ELSE [version |-> resp.Version, err |-> Nil, sent |-> <<input>>,
                       param |-> resp.param]

\* What the last accessor call was and returned; before is the version of the
\* parameter the service held when it was made, 0 when it held none.
Returned(op, rg, k, arg, value, version, e, sessErr, netErr, before) ==
    [op |-> op, region |-> rg, key |-> k, arg |-> arg, value |-> value,
     version |-> version, err |-> e, sessErr |-> sessErr, netErr |-> netErr,
     before |-> before]

\* A test calls GetParameterE(t, awsRegion, keyName).
CallGetParameterE ==
    /\ \E rg \in SsmRegions, k \in Keys, sessErr \in SessErrOrNil, netErr \in NetErrOrNil :
          LET p == store[<<rg, k>>]
              out == GetParameterE(p, k, sessErr, netErr)
          IN  /\ ret' = Returned("GetParameterE", rg, k, NoValue, out.value, NoVersion,
                                 out.err, sessErr, netErr, p.Version)
              /\ sent' = out.sent
    /\ UNCHANGED <<store, lastPut>>
    /\ UNCHANGED applyVars

\* A test calls PutParameterE(t, awsRegion, keyName, keyDescription, keyValue).
CallPutParameterE ==
    /\ \E rg \in SsmRegions, k \in Keys, d \in Descriptions, v \in Values,
          sessErr \in SessErrOrNil, netErr \in NetErrOrNil :
          LET p == store[<<rg, k>>]
              out == PutParameterE(p, k, d, v, sessErr, netErr)
          IN  /\ ret' = Returned("PutParameterE", rg, k, v, NoValue, out.version,
                                 out.err, sessErr, netErr, p.Version)
              /\ sent' = out.sent
              /\ store' = [store EXCEPT ![<<rg, k>>] = out.param]
              /\ lastPut' = [lastPut EXCEPT ![<<rg, k>>] =
                                IF out.err = Nil THEN v
                                ELSE IF out.param = p THEN @ ELSE NoValue]
    /\ UNCHANGED applyVars

\* Another user of the shared account writes a parameter, replacing any
\* parameter already there.
ExternalPutParameter ==
    /\ \E rg \in SsmRegions, k \in Keys, v \in Values, ty \in {"String", "SecureString"} :
          LET p == store[<<rg, k>>]
              resp == SsmPutParameter(p, [Name |-> k, Description |-> "", Value |-> v,
                                          Type |-> ty, Overwrite |-> TRUE])
          IN  /\ p.Version < MaxVersion
              /\ store' = [store EXCEPT ![<<rg, k>>] = resp.param]
              /\ lastPut' = [lastPut EXCEPT ![<<rg, k>>] = NoValue]
    /\ UNCHANGED <<ret, sent>>
    /\ UNCHANGED applyVars

\* ========================================================== specifications

Init ==
    /\ pc = "start"
    /\ region = "none"
    /\ id = "none"
    /\ attemptTerraformRetry = FALSE
    /\ err = Nil
    /\ deferred = <<>>
    /\ result = Nil
    /\ calls = <<>>
    /\ printed = <<>>
    /\ keyPairs = {}
    /\ store = [x \in SsmRegions \X Keys |-> NoParam]
    /\ ret = Returned("none", "none", "none", NoValue, NoValue, NoVersion, Nil, Nil, Nil,
                      NoVersion)
    /\ sent = <<>>
    /\ lastPut = [x \in SsmRegions \X Keys |-> NoValue]

\* A test process running TerraformApply.
Next ==
    \/ Enter
    \/ GenerateRSAKeyPair
    \/ CreateEC2KeyPair
    \/ AssertS3BucketExists
    \/ ConfigureRemoteState
    \/ Apply
    \/ DeferDestroy
    \/ TerraformDestroyHelper
    \/ DeleteEC2KeyPair
    \/ Return

Spec == Init /\ [][Next]_vars

\* Tests using the parameter-store accessors, beside other users of the account.
NextSsm ==
    \/ CallGetParameterE
    \/ CallPutParameterE
    \/ ExternalPutParameter

SpecSsm == Init /\ [][NextSsm]_vars

\* ========================================================== TerraformApply

\* Positions in the run's history of the calls of an operation.
Ops(op) == {i \in 1..Len(calls) : calls[i].op = op}
Count(op) == Cardinality(Ops(op))
ApplyCalls == Ops("Apply") \cup Ops("ApplyWithRetry")
Failed(op) == \E i \in Ops(op) : calls[i].ret # Nil
Succeeded(op) == \E i \in Ops(op) : calls[i].ret = Nil
Done == pc = "done"

\* C1: a run that invoked terraform.Apply or terraform.ApplyWithRetry invokes
\* terraform.Destroy exactly once before TerraformApply returns, whether the
\* apply succeeded or failed; a run that did not reach the apply step never
\* invokes terraform.Destroy.
C1_DestroyOncePerApply ==
    /\ Count("Destroy") <= 1
    /\ ApplyCalls = {} => Count("Destroy") = 0
    /\ (Done /\ ApplyCalls # {}) => Count("Destroy") = 1

C1_Witness ==
    /\ Done
    /\ Failed("Apply")
    /\ Count("Destroy") = 1

\* C2 as stated: when aws.AssertS3BucketExists fails, no apply operation is
\* invoked and aws.CreateEC2KeyPair is never invoked in the run.
C2_NoKeyPairOnBucketFailure ==
    Failed("AssertS3BucketExists") =>
        /\ ApplyCalls = {}
        /\ Count("CreateEC2KeyPair") = 0

\* C2 amended: when aws.AssertS3BucketExists fails, no apply operation, no
\* ConfigureRemoteState and no Destroy is invoked; the key pair was created
\* once, before the check, and is deleted before TerraformApply returns.
C2_NoApplyOnBucketFailure ==
    Failed("AssertS3BucketExists") =>
        /\ ApplyCalls = {}
        /\ Count("ConfigureRemoteState") = 0
        /\ Count("Destroy") = 0
        /\ Count("CreateEC2KeyPair") = 1
        /\ \A i \in Ops("CreateEC2KeyPair"), j \in Ops("AssertS3BucketExists") : i < j
        /\ pc \in {"return", "done"}
        /\ Done => (Count("DeleteEC2KeyPair") = 1 /\ keyPairs = {})

C2_Witness ==
    /\ Done
    /\ Failed("AssertS3BucketExists")
    /\ Count("CreateEC2KeyPair") = 1
    /\ Count("DeleteEC2KeyPair") = 1

\* C3: when util.GenerateRSAKeyPair fails, TerraformApply returns a non-nil
\* error and the run makes no other external call: no CreateEC2KeyPair,
\* DeleteEC2KeyPair, AssertS3BucketExists, ConfigureRemoteState, Apply,
\* ApplyWithRetry or Destroy.
C3_NoRemoteCallOnKeygenFailure ==
    Failed("GenerateRSAKeyPair") =>
        /\ \A i \in 1..Len(calls) : calls[i].op = "GenerateRSAKeyPair"
        /\ keyPairs = {}
        /\ pc \in {"return", "done"}
        /\ Done => result # Nil

C3_Witness ==
    /\ Done
    /\ Failed("GenerateRSAKeyPair")
    /\ result # Nil
    /\ Len(calls) = 1

\* What the outcomes of key generation, the bucket check and the apply step
\* determine as the returned value, whatever terraform.Destroy returned.
ReturnedFor(keygen, bucket, apply) ==
    IF keygen # Nil THEN "Failed to generate keypair: " \o keygen \o "\n"
    ELSE IF bucket # Nil
      THEN "Test failed because the S3 Bucket '" \o TF_REMOTE_STATE_S3_BUCKET_NAME
           \o "' does not exist in the '" \o TF_REMOTE_STATE_S3_BUCKET_REGION
           \o "' region.\n"
    ELSE IF apply # Nil THEN "Failed to terraform apply: " \o apply \o "\n"
    ELSE Nil

\* What an operation returned in this run, nil when it was never called.
Outcome(ops) == IF ops = {} THEN Nil ELSE calls[CHOOSE i \in ops : TRUE].ret

\* C4: the value TerraformApply returns is a function of the outcomes of key
\* generation, the bucket check and the apply step alone (nil when apply
\* succeeded, the apply error when it failed), so it is the same whether
\* terraform.Destroy fails or not; TerraformDestroyHelper returns nothing and
\* prints one diagnostic per failed destroy.
C4_ResultIndependentOfDestroy ==
    /\ Done => result = ReturnedFor(Outcome(Ops("GenerateRSAKeyPair")),
                                    Outcome(Ops("AssertS3BucketExists")),
                                    Outcome(ApplyCalls))
    /\ (Count("Destroy") > 0 /\ pc \in {"return", "done"}) =>
           result = ReturnedFor(Nil, Nil, Outcome(ApplyCalls))
    /\ Len(printed) = Cardinality({i \in Ops("Destroy") : calls[i].ret # Nil})

C4_Witness ==
    /\ Done
    /\ Succeeded("Apply")
    /\ Failed("Destroy")
    /\ result = Nil
    /\ Len(printed) = 1

\* C5: a run that invoked aws.CreateEC2KeyPair invokes aws.DeleteEC2KeyPair
\* exactly once, with the same region and run identifier, before
\* TerraformApply returns, on every exit path; a run that did not invoke
\* CreateEC2KeyPair never invokes DeleteEC2KeyPair.
C5_KeyPairDeletedOnEveryPath ==
    /\ Count("CreateEC2KeyPair") <= 1
    /\ Count("DeleteEC2KeyPair") <= Count("CreateEC2KeyPair")
    /\ \A i \in Ops("DeleteEC2KeyPair") :
          \E j \in Ops("CreateEC2KeyPair") : j < i /\ calls[j].args = calls[i].args
    /\ \A j \in Ops("CreateEC2KeyPair") : calls[j].args = <<region, id>>
    /\ (Done /\ Count("CreateEC2KeyPair") = 1) =>
           (Count("DeleteEC2KeyPair") = 1 /\ keyPairs = {})

C5_Witness ==
    /\ Done
    /\ Failed("ApplyWithRetry")
    /\ Count("CreateEC2KeyPair") = 1
    /\ Count("DeleteEC2KeyPair") = 1

\* C9: a run that reaches the apply step invokes exactly one of the two apply
\* operations, exactly once: terraform.ApplyWithRetry when
\* attemptTerraformRetry is true, terraform.Apply otherwise; TerraformApply
\* then returns a non-nil error exactly when that invocation returned one.
C9_OneApplyByFlag ==
    /\ Cardinality(ApplyCalls) <= 1
    /\ pc \in {"defer_destroy", "return", "done"} /\ Succeeded("ConfigureRemoteState") =>
          /\ Count("ApplyWithRetry") = (IF attemptTerraformRetry THEN 1 ELSE 0)
          /\ Count("Apply") = (IF attemptTerraformRetry THEN 0 ELSE 1)
    /\ (Done /\ ApplyCalls # {}) => ((result # Nil) <=> (Outcome(ApplyCalls) # Nil))

C9_Witness ==
    /\ Done
    /\ attemptTerraformRetry
    /\ Count("ApplyWithRetry") = 1
    /\ Count("Apply") = 0
    /\ Failed("ApplyWithRetry")
    /\ result # Nil

\* Place of an operation in the order of a run.
Rank(op) ==
    CASE op = "GenerateRSAKeyPair" -> 1
      [] op = "CreateEC2KeyPair" -> 2
      [] op = "AssertS3BucketExists" -> 3
      [] op = "ConfigureRemoteState" -> 4
      [] op \in {"Apply", "ApplyWithRetry"} -> 5
      [] op = "Destroy" -> 6
      [] op = "DeleteEC2KeyPair" -> 7

\* C10: the external calls of a run occur in the order GenerateRSAKeyPair,
\* CreateEC2KeyPair, AssertS3BucketExists, ConfigureRemoteState,
\* Apply/ApplyWithRetry, Destroy, DeleteEC2KeyPair, each at most once; apply is
\* invoked only after the bucket check succeeded and remote state was
\* configured; Destroy completes before DeleteEC2KeyPair is invoked, so the key
\* pair still exists while the infrastructure is destroyed.
C10_LinearOrder ==
    /\ \A i, j \in 1..Len(calls) : i < j => Rank(calls[i].op) < Rank(calls[j].op)
    /\ \A a \in ApplyCalls :
          /\ \E i \in Ops("AssertS3BucketExists") : i < a /\ calls[i].ret = Nil
          /\ \E i \in Ops("ConfigureRemoteState") : i < a
          /\ \E i \in Ops("CreateEC2KeyPair") : i < a
    /\ \A d \in Ops("Destroy") :
          /\ \A k \in Ops("DeleteEC2KeyPair") : d < k
          /\ Count("DeleteEC2KeyPair") = 0 => <<region, id>> \in keyPairs

C10_Witness ==
    /\ Done
    /\ Len(calls) = 7
    /\ calls[6].op = "Destroy"
    /\ calls[7].op = "DeleteEC2KeyPair"

\* ===================================================== parameter accessors

\* The parameter the last accessor call was about.
Slot == <<ret.region, ret.key>>
IsGet == ret.op = "GetParameterE"
IsPut == ret.op = "PutParameterE"

\* C6 as stated: GetParameterE on a key whose last write was a successful
\* PutParameterE of v in the same region returns exactly v and a nil error.
C6_GetReturnsPutValue ==
    (IsGet /\ lastPut[Slot] # NoValue) =>
        /\ ret.value = lastPut[Slot]
        /\ ret.err = Nil

\* C6 amended: GetParameterE on a key whose last write was a successful
\* PutParameterE of v in the same region returns exactly v whenever it returns
\* a nil error, and it returns an error only when client construction or the
\* remote call failed.
C6_GetReturnsPutValueUnlessFailed ==
    (IsGet /\ lastPut[Slot] # NoValue) =>
        /\ ret.err = Nil => ret.value = lastPut[Slot]
        /\ ret.err # Nil => (ret.sessErr # Nil \/ ret.netErr # Nil)
        /\ (ret.sessErr = Nil /\ ret.netErr = Nil) => ret.err = Nil

C6_Witness ==
    /\ IsGet
    /\ lastPut[Slot] = "v2"
    /\ ret.err = Nil
    /\ ret.value = "v2"

\* C7: PutParameterE on a key that already exists with version n returns a nil
\* error and a version strictly greater than n; stated here for the calls whose
\* client construction and transport succeed, so that only the service's
\* answer to the request decides it.
C7_PutOnExistingKeyIncrementsVersion ==
    (IsPut /\ ret.before > 0 /\ ret.sessErr = Nil /\ ret.netErr = Nil) =>
        /\ ret.err = Nil
        /\ ret.version > ret.before

\* The error of the remote call of the last accessor call, had it been issued
\* once: the transport's, else the service's answer to a get of a missing
\* parameter or to a put on an existing one.
RemoteErr ==
    IF ret.netErr # Nil THEN ret.netErr
    ELSE IF IsGet /\ ret.before = 0 THEN "ParameterNotFound"
    ELSE IF IsPut /\ ret.before > 0 THEN "ParameterAlreadyExists"
    ELSE Nil

\* C8: GetParameterE and PutParameterE do not retry: when NewSsmClientE fails
\* no remote call is issued and the result is the zero value with that error;
\* when the remote call fails its error is returned unchanged with the zero
\* value; at most one remote call is issued; and an error is returned only
\* when client construction or the remote call failed.
C8_ErrorsSurfacedWithoutRetry ==
    (IsGet \/ IsPut) =>
        /\ Len(sent) <= 1
        /\ ret.sessErr # Nil =>
              /\ sent = <<>>
              /\ ret.err = ret.sessErr
              /\ ret.value = NoValue
              /\ ret.version = NoVersion
        /\ (ret.sessErr = Nil /\ RemoteErr # Nil) =>
              /\ Len(sent) = 1
              /\ ret.err = RemoteErr
              /\ ret.value = NoValue
              /\ ret.version = NoVersion
        /\ ret.err # Nil => (ret.sessErr # Nil \/ RemoteErr # Nil)
        /\ (ret.sessErr = Nil /\ RemoteErr = Nil) => (ret.err = Nil /\ Len(sent) = 1)

C8_Witness ==
    /\ IsGet
    /\ ret.sessErr = Nil
    /\ ret.netErr # Nil
    /\ ret.err = ret.netErr
    /\ ret.value = NoValue
    /\ Len(sent) = 1

====
